---- MODULE Spec2Model ----
(***************************************************************************)
(* Model of backend/services/outline.py: OutlineService (construction,     *)
(* generate_outline, _parse_outline) and get_outline_service.              *)
(*                                                                         *)
(* A text is a sequence of characters, each character a one-element        *)
(* string.  The CJK characters of the type tags are written by their       *)
(* pinyin names: "feng" "mian" (cover), "nei" "rong" (content),            *)
(* "zong" "jie" (summary), "wei" "zhi" (an unrecognised token).            *)
(* An optional value (Python None or a value) is <<>> or <<v>>.            *)
(***************************************************************************)
EXTENDS Naturals, Sequences, FiniteSets

VARIABLES
    pc,               \* position of the caller / of the running method
    configFile,       \* text_providers.yaml on disk: what loading it yields
    templateFile,     \* prompts/outline_prompt.txt on disk
    text_config,      \* self.text_config (optional)
    client,           \* self.client (optional): the provider entry it was built from
    prompt_template,  \* self.prompt_template (optional)
    instance,         \* what get_outline_service handed to its caller (optional)
    initSteps,        \* the construction steps that have run, in order
    initError,        \* the error __init__ re-raised (optional)
    topic,            \* argument of the running generate_outline call
    images,           \* argument of the running generate_outline call (optional list)
    request,          \* keyword arguments of the last client.generate_text call (optional)
    invocations,      \* generate_text invocations made by the running call
    formatted,        \* whether prompt_template.format returned in the running call
    result,           \* the dict the call returned (optional)
    raised,           \* the error the call raised to its caller (optional)
    clientRaised,     \* the error generate_text raised in the running call (optional)
    nCalls,           \* generate_outline calls started on this instance
    outline_text,     \* argument of _parse_outline
    pages_raw,        \* local pages_raw of _parse_outline (optional)
    pages             \* return value of _parse_outline (optional)

vars == <<pc, configFile, templateFile, text_config, client, prompt_template,
          instance, initSteps, initError, topic, images, request, invocations,
          formatted, result, raised, clientRaised, nCalls, outline_text,
          pages_raw, pages>>

serviceVars == <<configFile, templateFile, text_config, client, prompt_template,
                 instance, initSteps, initError, topic, images, request,
                 invocations, formatted, result, raised, clientRaised, nCalls>>

parseVars == <<outline_text, pages_raw, pages>>

None == <<>>
Some(v) == <<v>>

(***************************************************************************)
(* Bounds of the model.                                                    *)
(***************************************************************************)
MaxChunks == 4
MaxImages == 2
MaxCalls == 2

(***************************************************************************)
(* Characters and string primitives.                                       *)
(***************************************************************************)
Whitespace == {" ", "\n", "\t"}

IsSpace(c) == c \in Whitespace

\* re.IGNORECASE folds the case of both the pattern and the text (of the
\* characters of the pattern, only p, a, g, e have another case).
Lower(c) ==
    CASE c = "P" -> "p"
      [] c = "A" -> "a"
      [] c = "G" -> "g"
      [] c = "E" -> "e"
      [] OTHER -> c

PageMarker == <<"<", "p", "a", "g", "e", ">">>

LegacyDelimiter == <<"-", "-", "-">>

MatchAt(s, i, pat) ==
    /\ i + Len(pat) - 1 <= Len(s)
    /\ \A k \in 1..Len(pat) : s[i + k - 1] = pat[k]

MatchAtIgnoreCase(s, i, pat) ==
    /\ i + Len(pat) - 1 <= Len(s)
    /\ \A k \in 1..Len(pat) : Lower(s[i + k - 1]) = Lower(pat[k])

\* Python: pat in s
StrContains(s, pat) == \E i \in 1..Len(s) : MatchAt(s, i, pat)

\* Python: s.split(sep), scanning left to right; i is the scan position and
\* start the first character of the fragment being collected.
RECURSIVE StrSplitFrom(_, _, _, _)
StrSplitFrom(s, sep, i, start) ==
    IF i + Len(sep) - 1 > Len(s)
    THEN <<SubSeq(s, start, Len(s))>>
    ELSE IF MatchAt(s, i, sep)
         THEN <<SubSeq(s, start, i - 1)>>
                  \o StrSplitFrom(s, sep, i + Len(sep), i + Len(sep))
         ELSE StrSplitFrom(s, sep, i + 1, start)

StrSplit(s, sep) == StrSplitFrom(s, sep, 1, 1)

\* Python: re.split(pat, s, flags=re.IGNORECASE) for a literal pattern.
RECURSIVE ReSplitFrom(_, _, _, _)
ReSplitFrom(s, pat, i, start) ==
    IF i + Len(pat) - 1 > Len(s)
    THEN <<SubSeq(s, start, Len(s))>>
    ELSE IF MatchAtIgnoreCase(s, i, pat)
         THEN <<SubSeq(s, start, i - 1)>>
                  \o ReSplitFrom(s, pat, i + Len(pat), i + Len(pat))
         ELSE ReSplitFrom(s, pat, i + 1, start)

ReSplitIgnoreCase(s, pat) == ReSplitFrom(s, pat, 1, 1)

RECURSIVE LStrip(_)
LStrip(s) == IF s # <<>> /\ IsSpace(Head(s)) THEN LStrip(Tail(s)) ELSE s

RECURSIVE RStrip(_)
RStrip(s) ==
    IF s # <<>> /\ IsSpace(s[Len(s)])
    THEN RStrip(SubSeq(s, 1, Len(s) - 1))
    ELSE s

\* Mutant of Strip: lstrip() in place of strip().
StripLeftOnly(s) == LStrip(s)

\* Python: s.strip()
Strip(s) == RStrip(LStrip(s))

(***************************************************************************)
(* _parse_outline.                                                         *)
(***************************************************************************)
\* Length of the longest run of non-whitespace characters starting at i:
\* what the greedy \S+ consumes first.
RECURSIVE NonSpaceRun(_, _)
NonSpaceRun(s, i) ==
    IF i <= Len(s) /\ ~IsSpace(s[i]) THEN 1 + NonSpaceRun(s, i + 1) ELSE 0

\* Backtracking of \S+ : give back one character at a time until the
\* character after the k consumed ones is "]".
RECURSIVE Backtrack(_, _)
Backtrack(s, k) ==
    IF k < 1
    THEN None
    ELSE IF k + 2 <= Len(s) /\ s[k + 2] = "]"
         THEN Some(SubSeq(s, 2, k + 1))
         ELSE Backtrack(s, k - 1)

\* Mutant of ReMatchType: the lazy pattern \[(\S+?)\], which stops at the first "]".
ReMatchTypeLazy(s) ==
    IF s = <<>> \/ s[1] # "["
    THEN None
    ELSE LET ks == {k \in 1..NonSpaceRun(s, 2) : k + 2 <= Len(s) /\ s[k + 2] = "]"}
         IN IF ks = {}
            THEN None
            ELSE Some(SubSeq(s, 2, (CHOOSE k \in ks : \A j \in ks : k <= j) + 1))

\* Python: re.match(r"\[(\S+)\]", s); the result is group(1), if it matched.
ReMatchType(s) ==
    IF s = <<>> \/ s[1] # "["
    THEN None
    ELSE Backtrack(s, NonSpaceRun(s, 2))

\* type_mapping.get(type_cn, "content")
TypeMappingGet(type_cn) ==
    CASE type_cn = <<"feng", "mian">> -> "cover"
      [] type_cn = <<"nei", "rong">> -> "content"
      [] type_cn = <<"zong", "jie">> -> "summary"
      [] OTHER -> "content"

\* Mutant of PageType: the tag is never looked at.
PageTypeAlwaysContent(page_text) == "content"

PageType(page_text) ==
    LET type_match == ReMatchType(page_text)
    IN IF type_match # None THEN TypeMappingGet(type_match[1]) ELSE "content"

\* Mutant of PageLoop: the pages are numbered 0, 1, 2, ... as they are appended.
RECURSIVE PageLoopDenseFrom(_, _, _)
PageLoopDenseFrom(raw, i, n) ==
    IF i > Len(raw)
    THEN <<>>
    ELSE LET page_text == Strip(raw[i])
         IN IF page_text = <<>>
            THEN PageLoopDenseFrom(raw, i + 1, n)
            ELSE <<[index |-> n, type |-> PageType(page_text), content |-> page_text]>>
                     \o PageLoopDenseFrom(raw, i + 1, n + 1)

PageLoopDense(raw, i) == PageLoopDenseFrom(raw, i, 0)

\* The for loop over enumerate(pages_raw); position i (from 1) is index i - 1.
RECURSIVE PageLoop(_, _)
PageLoop(raw, i) ==
    IF i > Len(raw)
    THEN <<>>
    ELSE LET page_text == Strip(raw[i])
         IN IF page_text = <<>>
            THEN PageLoop(raw, i + 1)
            ELSE <<[index |-> i - 1, type |-> PageType(page_text), content |-> page_text]>>
                     \o PageLoop(raw, i + 1)

\* Mutant of SplitPages: no fallback to the legacy delimiter.
SplitPagesMarkerOnly(text) == ReSplitIgnoreCase(text, PageMarker)

SplitPages(text) ==
    IF StrContains(text, PageMarker)
    THEN ReSplitIgnoreCase(text, PageMarker)
    ELSE StrSplit(text, LegacyDelimiter)

_parse_outline(text) == PageLoop(SplitPages(text), 1)

(***************************************************************************)
(* Inputs of _parse_outline: every concatenation of at most MaxChunks      *)
(* chunks, over the delimiter chunks and over the type-tag chunks.         *)
(***************************************************************************)
UpperMarker == <<"<", "P", "A", "G", "E", ">">>
MixedMarker == <<"<", "P", "a", "g", "e", ">">>

TagCover == <<"[", "feng", "mian", "]">>
TagContent == <<"[", "nei", "rong", "]">>
TagSummary == <<"[", "zong", "jie", "]">>
TagUnknown == <<"[", "wei", "zhi", "]">>

DelimiterChunks ==
    {PageMarker, UpperMarker, MixedMarker, LegacyDelimiter, <<"-">>, <<" ">>, <<"x">>}

TagChunks ==
    {TagCover, TagContent, TagSummary, TagUnknown, <<"[">>, <<"\n">>, <<"x">>, PageMarker}

RECURSIVE Concat(_)
Concat(q) == IF q = <<>> THEN <<>> ELSE Head(q) \o Concat(Tail(q))

Texts(chunks) ==
    {Concat(q) : q \in UNION {[1..n -> chunks] : n \in 0..MaxChunks}}

ParseInputs == Texts(DelimiterChunks) \cup Texts(TagChunks)

(***************************************************************************)
(* Configuration: Python dicts are functions on the keys that are present. *)
(***************************************************************************)
EmptyDict == [k \in {} |-> None]

\* dict.get(k, default)
DictGet(d, k, default) == IF k \in DOMAIN d THEN d[k] ELSE default

DefaultMaxOutputTokens == 65535

\* The default_config literal of _load_text_config.
DefaultConfig ==
    [active_provider |-> "google_gemini",
     providers |->
        [google_gemini |->
            [type |-> "google_gemini",
             model |-> "gemini-2.0-flash-exp",
             temperature |-> "1.0",
             max_output_tokens |-> DefaultMaxOutputTokens]]]

ProviderNames == {"google_gemini", "openai"}

SettingKeys == {"model", "temperature", "max_output_tokens"}

\* The settings a configuration file gives provider p (no two providers alike, none
\* a default).
FileSetting(p, k) ==
    CASE k = "model" -> IF p = "openai" THEN "gpt-4o" ELSE "gemini-1.5-pro"
      [] k = "temperature" -> IF p = "openai" THEN "0.7" ELSE "0.3"
      [] k = "max_output_tokens" -> IF p = "openai" THEN 4096 ELSE 8192

ProviderEntries(p) == {[k \in S |-> FileSetting(p, k)] : S \in SUBSET SettingKeys}

ProvidersMaps ==
    UNION {{m \in [S -> UNION {ProviderEntries(p) : p \in S}] :
                \A p \in S : m[p] \in ProviderEntries(p)} : S \in SUBSET ProviderNames}

ConfigDict(active, providers) ==
    [k \in (IF active = None THEN {} ELSE {"active_provider"})
              \cup (IF providers = None THEN {} ELSE {"providers"}) |->
        IF k = "active_provider" THEN active[1] ELSE providers[1]]

ConfigDicts ==
    {ConfigDict(a, m) : a \in {None} \cup {Some(p) : p \in ProviderNames},
                        m \in {None} \cup {Some(pm) : pm \in ProvidersMaps}}

\* text_providers.yaml: missing, not parseable, an empty document, or a mapping.
ConfigFiles ==
    {[kind |-> "absent"], [kind |-> "invalid"], [kind |-> "empty"]}
        \cup {[kind |-> "mapping", value |-> c] : c \in ConfigDicts}

\* _load_text_config, when yaml.safe_load does not raise.
_load_text_config(file) ==
    CASE file.kind = "absent" -> DefaultConfig
      [] file.kind = "empty" -> EmptyDict
      [] file.kind = "mapping" -> file.value

\* active_provider / providers / provider_config, as computed in _get_client and
\* again in generate_outline.
ProviderConfig(config) ==
    LET active_provider == DictGet(config, "active_provider", "google_gemini")
        providers == DictGet(config, "providers", EmptyDict)
    IN DictGet(providers, active_provider, EmptyDict)

(***************************************************************************)
(* Prompt template: a sequence of pieces, each a literal text, the escapes *)
(* "{{" and "}}", or a replacement field "{name}".                         *)
(***************************************************************************)
ReplacementFields == {"{topic}", "{style}"}

Templates ==
    {<<"Outline for: ", "{topic}">>,
     <<"{{", "{topic}", "}}">>,
     <<"Topic ", "{topic}", " in style ", "{style}">>}

TemplateFiles == {None} \cup {Some(t) : t \in Templates}

Topics == {"cats", "tea"}

\* str.format(topic=topic) raises KeyError on a field it was given no value for.
FormatRaises(template) ==
    \E i \in 1..Len(template) :
        template[i] \in ReplacementFields /\ template[i] # "{topic}"

FormatPiece(piece, t) ==
    CASE piece = "{topic}" -> t
      [] piece = "{{" -> "{"
      [] piece = "}}" -> "}"
      [] OTHER -> piece

\* prompt_template.format(topic=topic), when it does not raise.
Format(template, t) == [i \in 1..Len(template) |-> FormatPiece(template[i], t)]

Digits == <<"0", "1", "2", "3", "4", "5", "6", "7", "8", "9">>

\* The decimal numeral of n, as the f-string writes len(images).
RECURSIVE Decimal(_)
Decimal(n) ==
    IF n < 10
    THEN <<Digits[n + 1]>>
    ELSE Decimal(n \div 10) \o <<Digits[(n % 10) + 1]>>

\* The two halves of the advisory sentence (Chinese in the source).
AdvisoryHead == "\n\n[note: the user provided] "
AdvisoryTail == " [reference images; take their content and style into account ...]"

Advisory(n) == <<AdvisoryHead>> \o Decimal(n) \o <<AdvisoryTail>>

Blobs == {"img"}

ImageLists == UNION {[1..n -> Blobs] : n \in 0..MaxImages}

ImageArgs == {None} \cup {Some(l) : l \in ImageLists}

\* Python truth of: images and len(images) > 0
ImagesTruthy(imgs) == imgs # None /\ imgs[1] # <<>> /\ Len(imgs[1]) > 0

\* Mutant of BuildPrompt: the test is "images is not None".
BuildPromptUnlessNone(template, t, imgs) ==
    IF imgs # None
    THEN Format(template, t) \o Advisory(Len(imgs[1]))
    ELSE Format(template, t)

BuildPrompt(template, t, imgs) ==
    IF ImagesTruthy(imgs)
    THEN Format(template, t) \o Advisory(Len(imgs[1]))
    ELSE Format(template, t)

\* Mutant of BuildRequest: the defaults replace the whole entry as soon as
\* one key is missing.
BuildRequestWholeEntryFallback(config, template, t, imgs) ==
    LET provider_config == ProviderConfig(config)
        complete == {"model", "temperature", "max_output_tokens"} \subseteq DOMAIN provider_config
    IN [prompt |-> BuildPrompt(template, t, imgs),
        model |-> IF complete THEN provider_config.model ELSE "gemini-2.0-flash-exp",
        temperature |-> IF complete THEN provider_config.temperature ELSE "1.0",
        max_output_tokens |->
            IF complete THEN provider_config.max_output_tokens ELSE DefaultMaxOutputTokens,
        images |-> imgs]

\* The keyword arguments of self.client.generate_text(...).
BuildRequest(config, template, t, imgs) ==
    LET provider_config == ProviderConfig(config)
    IN [prompt |-> BuildPrompt(template, t, imgs),
        model |-> DictGet(provider_config, "model", "gemini-2.0-flash-exp"),
        temperature |-> DictGet(provider_config, "temperature", "1.0"),
        max_output_tokens |->
            DictGet(provider_config, "max_output_tokens", DefaultMaxOutputTokens),
        images |-> imgs]

HasImages(imgs) == imgs # None /\ Len(imgs[1]) > 0

\* What the external client may return, and what it may raise.
ClientTexts ==
    {Concat(<<TagCover, <<"x">>, PageMarker, <<"\n">>, PageMarker, TagSummary>>),
     Concat(<<<<"x">>, LegacyDelimiter, <<"x">>>>),
     <<" ">>}

ClientErrors == {"NetworkError", "AuthError"}

(***************************************************************************)
(* State before any construction.                                          *)
(***************************************************************************)
ServiceIdle ==
    /\ text_config = None
    /\ client = None
    /\ prompt_template = None
    /\ instance = None
    /\ initSteps = <<>>
    /\ initError = None
    /\ topic = ""
    /\ images = None
    /\ request = None
    /\ invocations = 0
    /\ formatted = FALSE
    /\ result = None
    /\ raised = None
    /\ clientRaised = None
    /\ nCalls = 0

InitParse ==
    /\ pc = "parse_start"
    /\ configFile = [kind |-> "absent"]
    /\ templateFile = None
    /\ outline_text \in ParseInputs
    /\ pages_raw = None
    /\ pages = None
    /\ ServiceIdle

\* One call _parse_outline(outline_text).
ParseCall ==
    /\ pc = "parse_start"
    /\ pages_raw' = Some(SplitPages(outline_text))
    /\ pages' = Some(_parse_outline(outline_text))
    /\ pc' = "parse_done"
    /\ UNCHANGED <<outline_text, serviceVars>>

NextParse == ParseCall

SpecParse == InitParse /\ [][NextParse]_vars

(***************************************************************************)
(* get_outline_service / OutlineService.__init__ and generate_outline.     *)
(***************************************************************************)
Init ==
    /\ pc = "new"
    /\ configFile \in ConfigFiles
    /\ templateFile \in TemplateFiles
    /\ outline_text = <<>>
    /\ pages_raw = None
    /\ pages = None
    /\ ServiceIdle

callVars ==
    <<topic, images, request, invocations, formatted, result, raised, clientRaised, nCalls>>

InitFails(step, error) ==
    /\ initError' = Some([step |-> step, error |-> error])
    /\ pc' = "init_failed"

\* __init__: self.text_config = self._load_text_config()
InitLoadConfig ==
    /\ pc = "new"
    /\ initSteps' = Append(initSteps, "load_config")
    /\ IF configFile.kind = "invalid"
       THEN /\ InitFails("load_config", "YAMLError")
            /\ UNCHANGED text_config
       ELSE /\ text_config' = Some(_load_text_config(configFile))
            /\ pc' = "config_loaded"
            /\ UNCHANGED initError
    /\ UNCHANGED <<configFile, templateFile, client, prompt_template, instance,
                   callVars, parseVars>>

\* Mutant of InitGetClient: the failure is logged and construction goes on
\* without a client.
InitGetClientSwallowsError ==
    /\ pc = "config_loaded"
    /\ initSteps' = Append(initSteps, "get_client")
    /\ \E built \in BOOLEAN :
          client' = IF built THEN Some(ProviderConfig(text_config[1])) ELSE None
    /\ pc' = "client_ready"
    /\ UNCHANGED <<configFile, templateFile, text_config, prompt_template, instance,
                   initError, callVars, parseVars>>

\* __init__: self.client = self._get_client(); get_text_chat_client is external
\* and either returns a client for the provider entry or raises.
InitGetClient ==
    /\ pc = "config_loaded"
    /\ initSteps' = Append(initSteps, "get_client")
    /\ \E built \in BOOLEAN :
          IF built
          THEN /\ client' = Some(ProviderConfig(text_config[1]))
               /\ pc' = "client_ready"
               /\ UNCHANGED initError
          ELSE /\ InitFails("get_client", "ClientError")
               /\ UNCHANGED client
    /\ UNCHANGED <<configFile, templateFile, text_config, prompt_template, instance,
                   callVars, parseVars>>

\* __init__: self.prompt_template = self._load_prompt_template(); on success
\* the constructor returns and get_outline_service returns the instance.
InitLoadTemplate ==
    /\ pc = "client_ready"
    /\ initSteps' = Append(initSteps, "load_template")
    /\ IF templateFile = None
       THEN /\ InitFails("load_template", "FileNotFoundError")
            /\ UNCHANGED <<prompt_template, instance>>
       ELSE /\ prompt_template' = templateFile
            /\ instance' = Some("OutlineService")
            /\ pc' = "ready"
            /\ UNCHANGED initError
    /\ UNCHANGED <<configFile, templateFile, text_config, client, callVars, parseVars>>

CallEnabled ==
    /\ pc \in {"ready", "returned", "raised"}
    /\ nCalls < MaxCalls

\* generate_outline, from its entry to the call of self.client.generate_text.
GenerateOutlineCall ==
    /\ CallEnabled
    /\ ~FormatRaises(prompt_template[1])
    /\ \E t \in Topics, imgs \in ImageArgs :
          /\ topic' = t
          /\ images' = imgs
          /\ request' = Some(BuildRequest(text_config[1], prompt_template[1], t, imgs))
    /\ formatted' = TRUE
    /\ invocations' = 1
    /\ result' = None
    /\ raised' = None
    /\ clientRaised' = None
    /\ nCalls' = nCalls + 1
    /\ pc' = "in_client"
    /\ UNCHANGED <<configFile, templateFile, text_config, client, prompt_template,
                   instance, initSteps, initError, parseVars>>

\* generate_outline when prompt_template.format raises: the except clause
\* re-raises before the client is reached.
GenerateOutlineFormatError ==
    /\ CallEnabled
    /\ FormatRaises(prompt_template[1])
    /\ \E t \in Topics, imgs \in ImageArgs :
          /\ topic' = t
          /\ images' = imgs
    /\ formatted' = FALSE
    /\ invocations' = 0
    /\ request' = None
    /\ result' = None
    /\ raised' = Some("KeyError")
    /\ clientRaised' = None
    /\ nCalls' = nCalls + 1
    /\ pc' = "raised"
    /\ UNCHANGED <<configFile, templateFile, text_config, client, prompt_template,
                   instance, initSteps, initError, parseVars>>

\* generate_text returns: parse and return the result dict.
ClientReturns ==
    /\ pc = "in_client"
    /\ \E text \in ClientTexts :
          /\ outline_text' = text
          /\ pages_raw' = Some(SplitPages(text))
          /\ pages' = Some(_parse_outline(text))
          /\ result' = Some([success |-> TRUE,
                             outline |-> text,
                             pages |-> _parse_outline(text),
                             has_images |-> HasImages(images)])
    /\ pc' = "returned"
    /\ UNCHANGED <<configFile, templateFile, text_config, client, prompt_template,
                   instance, initSteps, initError, topic, images, request,
                   invocations, formatted, raised, clientRaised, nCalls>>

\* Mutant of ClientRaises: the error is translated before it is raised.
ClientRaisesTranslated ==
    /\ pc = "in_client"
    /\ \E e \in ClientErrors :
          /\ clientRaised' = Some(e)
          /\ raised' = Some("OutlineError")
    /\ pc' = "raised"
    /\ UNCHANGED <<configFile, templateFile, text_config, client, prompt_template,
                   instance, initSteps, initError, topic, images, request,
                   invocations, formatted, result, nCalls, parseVars>>

\* generate_text raises e: except Exception as e: raise e
ClientRaises ==
    /\ pc = "in_client"
    /\ \E e \in ClientErrors :
          /\ clientRaised' = Some(e)
          /\ raised' = Some(e)
    /\ pc' = "raised"
    /\ UNCHANGED <<configFile, templateFile, text_config, client, prompt_template,
                   instance, initSteps, initError, topic, images, request,
                   invocations, formatted, result, nCalls, parseVars>>

Next ==
    \/ InitLoadConfig
    \/ InitGetClient
    \/ InitLoadTemplate
    \/ GenerateOutlineCall
    \/ GenerateOutlineFormatError
    \/ ClientReturns
    \/ ClientRaises

Spec == Init /\ [][Next]_vars

(***************************************************************************)
(* Reference definitions for the properties of _parse_outline.  They       *)
(* describe the expected result by position in the text and use none of    *)
(* the operators above.                                                    *)
(***************************************************************************)
Blank == {" ", "\n", "\t"}

IsLiteralMarkerAt(text, i) ==
    /\ i + 5 <= Len(text)
    /\ SubSeq(text, i, i + 5) = <<"<", "p", "a", "g", "e", ">">>

\* The marker in any mix of upper and lower case.
IsAnyCaseMarkerAt(text, i) ==
    /\ i + 5 <= Len(text)
    /\ text[i] = "<"
    /\ text[i + 1] \in {"p", "P"}
    /\ text[i + 2] \in {"a", "A"}
    /\ text[i + 3] \in {"g", "G"}
    /\ text[i + 4] \in {"e", "E"}
    /\ text[i + 5] = ">"

IsDashesAt(text, i) ==
    /\ i + 2 <= Len(text)
    /\ \A j \in i..(i + 2) : text[j] = "-"

HasLiteralMarker(text) == \E i \in 1..Len(text) : IsLiteralMarkerAt(text, i)

HasAnyCaseMarker(text) == \E i \in 1..Len(text) : IsAnyCaseMarkerAt(text, i)

HasDashes(text) == \E i \in 1..Len(text) : IsDashesAt(text, i)

\* The number of "-" immediately before position i.
DashesBefore(text, i) ==
    Cardinality({j \in 1..(i - 1) : \A h \in j..(i - 1) : text[h] = "-"})

\* Where the delimiters start: every occurrence of the marker (occurrences of
\* the marker cannot overlap), or the occurrences of --- taken from the left
\* without overlap: within a run of dashes, every third one.
MarkerCuts(text) == {i \in 1..Len(text) : IsAnyCaseMarkerAt(text, i)}

DashCuts(text) ==
    {i \in 1..Len(text) : IsDashesAt(text, i) /\ DashesBefore(text, i) % 3 = 0}

\* The n-th smallest element of a set of numbers.
Nth(S, n) == CHOOSE c \in S : Cardinality({d \in S : d < c}) = n - 1

\* The fragments between delimiters of the given width starting at cuts.
FragmentsBetween(text, cuts, width) ==
    [k \in 1..(Cardinality(cuts) + 1) |->
        SubSeq(text,
               IF k = 1 THEN 1 ELSE Nth(cuts, k - 1) + width,
               IF k = Cardinality(cuts) + 1 THEN Len(text) ELSE Nth(cuts, k) - 1)]

MarkerFragments(text) == FragmentsBetween(text, MarkerCuts(text), 6)

DashFragments(text) == FragmentsBetween(text, DashCuts(text), 3)

\* The fragments of the delimiter in use: the marker when the text holds the
\* lowercase marker, else ---.
Fragments(text) ==
    IF HasLiteralMarker(text) THEN MarkerFragments(text) ELSE DashFragments(text)

IsBlank(f) == \A i \in 1..Len(f) : f[i] \in Blank

Trimmed(f) ==
    IF IsBlank(f)
    THEN <<>>
    ELSE LET solid == {i \in 1..Len(f) : f[i] \notin Blank}
         IN SubSeq(f, Nth(solid, 1), Nth(solid, Cardinality(solid)))

\* Positions (from 1) of the fragments that are kept.
Kept(frags) == {k \in 1..Len(frags) : ~IsBlank(frags[k])}

\* The [token] tag at the start of a trimmed fragment: "[", then the longest
\* run of non-blank characters that is followed by "]".
TokenLengths(c) ==
    {k \in 1..Len(c) :
        /\ k + 2 <= Len(c)
        /\ c[1] = "["
        /\ \A j \in 2..(k + 1) : c[j] \notin Blank
        /\ c[k + 2] = "]"}

HasTag(c) == TokenLengths(c) # {}

Token(c) == SubSeq(c, 2, Nth(TokenLengths(c), Cardinality(TokenLengths(c))) + 1)

ExpectedType(c) ==
    IF ~HasTag(c) THEN "content"
    ELSE IF Token(c) = <<"feng", "mian">> THEN "cover"
    ELSE IF Token(c) = <<"zong", "jie">> THEN "summary"
    ELSE "content"

\* The text with every marker, in whatever case, written <page>.
LowercaseMarkers(text) ==
    [i \in 1..Len(text) |->
        IF \E j \in 1..i : IsAnyCaseMarkerAt(text, j) /\ i <= j + 5
        THEN <<"<", "p", "a", "g", "e", ">">>[i - (CHOOSE j \in 1..i :
                                                    IsAnyCaseMarkerAt(text, j) /\ i <= j + 5) + 1]
        ELSE text[i]]

ParseDone == pc = "parse_done"

(***************************************************************************)
(* C1: page splitting is case-insensitive: a text parses to the same pages *)
(* as the text with every marker (<page>, <PAGE>, <Page>, any mix) written *)
(* in lowercase, so --- is the delimiter only when no case variant of the  *)
(* marker occurs.                                                          *)
(***************************************************************************)
C1_CaseInsensitiveSplit ==
    ParseDone =>
        /\ pages[1] = _parse_outline(LowercaseMarkers(outline_text))
        /\ HasAnyCaseMarker(outline_text) => pages_raw[1] = MarkerFragments(outline_text)

(***************************************************************************)
(* C2: the contents of the pages are, in order, the trimmed fragments      *)
(* between delimiters that are not blank: as many pages as such fragments, *)
(* no page for a blank fragment, each content the whole trimmed fragment   *)
(* with its leading [tag].                                                 *)
(***************************************************************************)
C2_ContentsAreTrimmedFragments ==
    ParseDone =>
        LET frags == Fragments(outline_text)
            kept == Kept(frags)
        IN /\ Len(pages[1]) = Cardinality(kept)
           /\ \A n \in 1..Len(pages[1]) :
                 pages[1][n].content = Trimmed(frags[Nth(kept, n)])

\* C2 witness: three fragments, the middle one blank; two pages, the first keeping its [feng mian] tag.
C2_Witness ==
    /\ ParseDone
    /\ Len(pages[1]) = 2
    /\ Len(pages_raw[1]) = 3
    /\ pages[1][1].content = <<"[", "feng", "mian", "]">>
    /\ pages[1][1].type = "cover"

C7_SinglePageIsContent ==
    ParseDone =>
        /\ IsBlank(outline_text) => pages[1] = <<>>
        /\ (~IsBlank(outline_text) /\ ~HasAnyCaseMarker(outline_text)
                /\ ~HasDashes(outline_text))
              => pages[1] = <<[index |-> 0, type |-> "content",
                               content |-> Trimmed(outline_text)]>>

(***************************************************************************)
(* C7 amended: _parse_outline returns on every text; a non-blank text      *)
(* without marker and without --- parses to one page with index 0, the     *)
(* whole trimmed text as content, and the type its leading tag gives       *)
(* (content when there is none or it is unrecognised); a blank text parses *)
(* to no page.                                                             *)
(***************************************************************************)
C7_SinglePageTypedByTag ==
    ParseDone =>
        /\ pages # None
        /\ IsBlank(outline_text) => pages[1] = <<>>
        /\ (~IsBlank(outline_text) /\ ~HasAnyCaseMarker(outline_text)
                /\ ~HasDashes(outline_text))
              => pages[1] = <<[index |-> 0,
                               type |-> ExpectedType(Trimmed(outline_text)),
                               content |-> Trimmed(outline_text)]>>

\* C7 witness: a text without delimiters, trimmed, parsed to one summary page.
C7_Witness ==
    /\ ParseDone
    /\ ~HasAnyCaseMarker(outline_text)
    /\ ~HasDashes(outline_text)
    /\ Len(pages[1]) = 1
    /\ pages[1][1].type = "summary"
    /\ Len(pages[1][1].content) < Len(outline_text)

(***************************************************************************)
(* C8: legacy delimiter fallback: a text without the <page> marker that    *)
(* contains --- is split at every --- (from the left); in a text with the  *)
(* <page> marker --- is no delimiter: the text is split at the markers     *)
(* alone and every --- stays inside a page's content.                      *)
(***************************************************************************)
C8_LegacyDelimiterFallback ==
    ParseDone =>
        /\ (~HasLiteralMarker(outline_text) /\ HasDashes(outline_text))
              => /\ pages_raw[1] = DashFragments(outline_text)
                 /\ \A k \in 1..Len(pages_raw[1]) : ~HasDashes(pages_raw[1][k])
        /\ HasLiteralMarker(outline_text)
              => /\ pages_raw[1] = MarkerFragments(outline_text)
                 /\ HasDashes(outline_text)
                       => \E n \in 1..Len(pages[1]) : HasDashes(pages[1][n].content)

\* C8 witness: a text without <page> split at two occurrences of ---.
C8_Witness ==
    /\ ParseDone
    /\ ~HasLiteralMarker(outline_text)
    /\ HasDashes(outline_text)
    /\ Len(pages_raw[1]) = 3
    /\ Len(pages[1]) = 2

(***************************************************************************)
(* C9 as stated: the index of a page is the position (from 0) of its       *)
(* fragment in the split list; indices increase strictly; every discarded  *)
(* fragment leaves a gap, and the indices are 0, 1, 2, ... only when no    *)
(* fragment was discarded.                                                 *)
(***************************************************************************)
C9_EveryDiscardLeavesGap ==
    ParseDone =>
        LET kept == Kept(pages_raw[1])
            dense == \A n \in 1..Len(pages[1]) : pages[1][n].index = n - 1
        IN /\ \A n \in 1..Len(pages[1]) : pages[1][n].index = Nth(kept, n) - 1
           /\ \A n \in 2..Len(pages[1]) : pages[1][n - 1].index < pages[1][n].index
           /\ (pages[1] # <<>> /\ dense) => kept = 1..Len(pages_raw[1])

(***************************************************************************)
(* C9 amended: the index of a page is the position (from 0) of its         *)
(* fragment in the split list; indices increase strictly; every discarded  *)
(* fragment that comes before a kept one leaves a gap, and the indices are *)
(* 0, 1, 2, ... exactly when no discarded fragment comes before a kept one *)
(* (discarded fragments after the last page leave no trace).               *)
(***************************************************************************)
C9_IndexIsSplitPosition ==
    ParseDone =>
        LET kept == Kept(pages_raw[1])
            dense == \A n \in 1..Len(pages[1]) : pages[1][n].index = n - 1
            indices == {pages[1][n].index : n \in 1..Len(pages[1])}
        IN /\ Len(pages[1]) = Cardinality(kept)
           /\ \A n \in 1..Len(pages[1]) : pages[1][n].index = Nth(kept, n) - 1
           /\ \A n \in 2..Len(pages[1]) : pages[1][n - 1].index < pages[1][n].index
           /\ \A k \in 1..Len(pages_raw[1]) :
                 (k \notin kept /\ \E h \in kept : h > k)
                    => /\ (k - 1) \notin indices
                       /\ \E i \in indices : i > k - 1
           /\ dense <=> \A k \in 1..Len(pages_raw[1]) :
                            k \notin kept => \A h \in kept : h < k

\* C9 witness: the middle of three fragments was discarded; the indices are 0 and 2.
C9_Witness ==
    /\ ParseDone
    /\ Len(pages_raw[1]) = 3
    /\ Len(pages[1]) = 2
    /\ pages[1][1].index = 0
    /\ pages[1][2].index = 2

(***************************************************************************)
(* Reference definitions for the properties of the service.                *)
(***************************************************************************)
CallCompleted == pc \in {"returned", "raised"}

\* A template str.format(topic=...) cannot fill: it names another field.
NamesOtherField(template) == \E i \in 1..Len(template) : template[i] = "{style}"

ImagesGiven == images # None /\ images[1] # <<>>

Numerals == <<"1", "2", "3", "4", "5", "6", "7", "8", "9">>

ConstructionOrder == <<"load_config", "get_client", "load_template">>

\* The configuration a file stands for.
ConfigOfFile ==
    IF configFile.kind = "absent"
    THEN [active_provider |-> "google_gemini",
          providers |-> [google_gemini |-> [type |-> "google_gemini",
                                            model |-> "gemini-2.0-flash-exp",
                                            temperature |-> "1.0",
                                            max_output_tokens |-> 65535]]]
    ELSE IF configFile.kind = "empty" THEN <<>> ELSE configFile.value

ActiveName(config) ==
    IF "active_provider" \in DOMAIN config THEN config.active_provider ELSE "google_gemini"

\* The active provider's setting, or the default when the providers mapping,
\* the provider's entry or the key is absent.
SettingOrDefault(config, key, default) ==
    IF /\ "providers" \in DOMAIN config
       /\ ActiveName(config) \in DOMAIN config.providers
       /\ key \in DOMAIN config.providers[ActiveName(config)]
    THEN config.providers[ActiveName(config)][key]
    ELSE default

(***************************************************************************)
(* C4 as stated: every generate_outline call invokes generate_text exactly *)
(* once, and when that invocation raises, the call raises the same error   *)
(* and returns no result.                                                  *)
(***************************************************************************)
C4_ExactlyOneInvocation ==
    CallCompleted =>
        /\ invocations = 1
        /\ clientRaised # None => (raised = clientRaised /\ result = None)

(***************************************************************************)
(* C4 amended: a generate_outline call invokes generate_text at most once  *)
(* (no retry), and exactly once unless formatting the prompt raises before *)
(* the client is reached; when the invocation raises, the call raises the  *)
(* same error and returns no result; a call that raises returns no result. *)
(***************************************************************************)
C4_AtMostOneInvocation ==
    /\ pc = "in_client" => invocations = 1
    /\ CallCompleted =>
          /\ invocations <= 1
          /\ invocations = 1 <=> ~NamesOtherField(prompt_template[1])
          /\ clientRaised # None => (raised = clientRaised /\ result = None)
          /\ raised # None <=> result = None
          /\ (raised # None /\ clientRaised = None) => invocations = 0

\* C4 witness: the second call on an instance ends with the client's NetworkError.
C4_Witness ==
    /\ pc = "raised"
    /\ clientRaised = Some("NetworkError")
    /\ invocations = 1
    /\ nCalls = 2

(***************************************************************************)
(* C5: on a successful call with a non-empty images list has_images is     *)
(* true and the prompt sent is the formatted template followed by the      *)
(* advisory sentence with the image count; with images None or empty       *)
(* has_images is false and the prompt is the formatted template alone.     *)
(***************************************************************************)
C5_ImagesAdvisory ==
    pc = "returned" =>
        LET prompt == request[1].prompt
            template == prompt_template[1]
            n == Len(template)
        IN /\ result[1].has_images = ImagesGiven
           /\ Len(prompt) = IF ImagesGiven THEN n + 3 ELSE n
           /\ \A i \in 1..n :
                 prompt[i] = IF template[i] = "{topic}" THEN topic
                             ELSE IF template[i] = "{{" THEN "{"
                             ELSE IF template[i] = "}}" THEN "}"
                             ELSE template[i]
           /\ ImagesGiven =>
                 /\ prompt[n + 1] = AdvisoryHead
                 /\ prompt[n + 2] = Numerals[Len(images[1])]
                 /\ prompt[n + 3] = AdvisoryTail
           /\ request[1].images = images

\* C5 witness: a call with two images returned; the prompt is three template pieces and the advisory.
C5_Witness ==
    /\ pc = "returned"
    /\ images = Some(<<"img", "img">>)
    /\ result[1].has_images
    /\ Len(request[1].prompt) = 6

(***************************************************************************)
(* C6: construction runs load config, obtain client, load template in this *)
(* order; a failure of a step ends construction at that step with the      *)
(* error raised: no later step has run, nothing of a later step is set,    *)
(* and the caller holds no instance.  An instance the caller holds is      *)
(* fully initialised.                                                      *)
(***************************************************************************)
C6_ConstructionAllOrNothing ==
    /\ initSteps = SubSeq(ConstructionOrder, 1, Len(initSteps))
    /\ initError # None =>
          /\ pc = "init_failed"
          /\ instance = None
          /\ initSteps # <<>>
          /\ initSteps[Len(initSteps)] = initError[1].step
          /\ nCalls = 0
          /\ initError[1].step = "load_config" => (text_config = None /\ client = None)
          /\ initError[1].step # "load_template" => prompt_template = None
    /\ instance # None =>
          /\ initError = None
          /\ initSteps = ConstructionOrder
          /\ text_config # None
          /\ client # None
          /\ prompt_template # None
    /\ (configFile.kind = "invalid" /\ initSteps # <<>>) =>
          (initError # None /\ initError[1].step = "load_config")
    /\ (templateFile = None /\ Len(initSteps) = 3) =>
          (initError # None /\ initError[1].step = "load_template")
    /\ nCalls > 0 => instance # None

\* C6 witness: the client could not be built after the configuration was loaded.
C6_Witness ==
    /\ initError # None
    /\ initError[1].step = "get_client"
    /\ text_config # None
    /\ templateFile # None
    /\ instance = None

(***************************************************************************)
(* C10: the model, temperature and max_output_tokens sent to the client    *)
(* are those of the active provider's entry of the loaded configuration,   *)
(* each replaced by its default (gemini-2.0-flash-exp, 1.0, 65535) when    *)
(* the key, the entry or the providers mapping is absent; without a        *)
(* configuration file the configuration is the default one, the client is  *)
(* built for google_gemini and the three defaults are sent; the loaded     *)
(* configuration never changes.                                            *)
(***************************************************************************)
C10_SettingsFromActiveProvider ==
    /\ text_config # None => text_config[1] = ConfigOfFile
    /\ request # None =>
          /\ request[1].model =
                SettingOrDefault(ConfigOfFile, "model", "gemini-2.0-flash-exp")
          /\ request[1].temperature = SettingOrDefault(ConfigOfFile, "temperature", "1.0")
          /\ request[1].max_output_tokens =
                SettingOrDefault(ConfigOfFile, "max_output_tokens", 65535)
    /\ (configFile.kind = "absent" /\ client # None) =>
          client[1] = [type |-> "google_gemini", model |-> "gemini-2.0-flash-exp",
                       temperature |-> "1.0", max_output_tokens |-> 65535]
    /\ (configFile.kind = "absent" /\ request # None) =>
          /\ request[1].model = "gemini-2.0-flash-exp"
          /\ request[1].temperature = "1.0"
          /\ request[1].max_output_tokens = 65535

\* C10 witness: the openai entry gives model and max_output_tokens, temperature falls back.
C10_Witness ==
    /\ pc = "returned"
    /\ configFile.kind = "mapping"
    /\ "active_provider" \in DOMAIN configFile.value
    /\ configFile.value.active_provider = "openai"
    /\ request[1].model = "gpt-4o"
    /\ request[1].temperature = "1.0"
    /\ request[1].max_output_tokens = 4096

====
